---- MODULE Spec2Model ----
(***************************************************************************)
(* Harris County patrol project: the modelling pipeline of                 *)
(* scripts/modeling.py (generate_patrol_points, optimize_patrol_stations,  *)
(* analyze_service_coverage, calculate_equity_metrics, main).              *)
(*                                                                         *)
(* Geometry is one-dimensional: a coordinate is a cell of a line, a        *)
(* polygon is its bounding interval together with the set of cells         *)
(* strictly inside it, and to_crs(epsg=3857) is the scaling of a cell to   *)
(* metres.  Areas, distances and sums are exact integers or fractions      *)
(* <<numerator, denominator>>; floating-point rounding is outside the      *)
(* model.                                                                  *)
(***************************************************************************)
EXTENDS Integers, Sequences, FiniteSets

VARIABLES
    pc,                         \* position in the pipeline / current function
    constable_precincts,        \* the precinct table (rows PCT_NUM, area_sq_km, geometry)
    num_points,                 \* generate_patrol_points' point budget
    idx,                        \* generate_patrol_points: row of the for loop
    precinct_points,            \* generate_patrol_points: the row's quota
    points,                     \* generate_patrol_points: the row's accepted points
    sample,                     \* generate_patrol_points: the coordinate last drawn
    all_points,                 \* generate_patrol_points: the accumulated points
    patrol_points,              \* the demand points handed to the optimizer
    num_stations_per_precinct,  \* optimize_patrol_stations' facility count
    opt_idx,                    \* optimize_patrol_stations: turn of the for loop
    optimal_stations,           \* optimize_patrol_stations: the stations so far
    patrol_stations,            \* the facility table
    zipcodes,                   \* the zone table
    equity_metrics              \* calculate_equity_metrics' result

vars == <<pc, constable_precincts, num_points, idx, precinct_points, points,
          sample, all_points, patrol_points, num_stations_per_precinct,
          opt_idx, optimal_stations, patrol_stations, zipcodes, equity_metrics>>

genVars == <<idx, precinct_points, points, sample, all_points>>

optVars == <<opt_idx, optimal_stations>>

----------------------------------------------------------------------------
(* Bounds of the model *)

MaxPrecinctRows == 2
MaxArea == 2
MaxNumPoints == 10
MaxEquityZones == 5
MaxZones == 2
MaxStations == 2

PctNums == {1, 2}

\* The cells a precinct's interior can lie on
PrecinctCells == 0..MaxPrecinctRows

None == "None"

----------------------------------------------------------------------------
(* Helpers *)

Max(a, b) == IF a >= b THEN a ELSE b

Abs(a) == IF a >= 0 THEN a ELSE 0 - a

SetMax(S) == CHOOSE x \in S : \A y \in S : y <= x

SetMin(S) == CHOOSE x \in S : \A y \in S : x <= y

RECURSIVE SumSeq(_)
SumSeq(s) == IF s = <<>> THEN 0 ELSE Head(s) + SumSeq(Tail(s))

Column(table, col) == [i \in 1..Len(table) |-> table[i][col]]

SeqsUpTo(S, lo, hi) == UNION {[1..n -> S] : n \in lo..hi}

----------------------------------------------------------------------------
(* Geometry *)

\* The polygon of the precinct in row i: bounding interval minx..maxx and the
\* cells strictly inside (the boundary cells minx and maxx are not inside).
\* The bounding boxes of neighbouring rows overlap; their interiors do not.
RowPolygon(i) == [minx |-> i - 1, maxx |-> i + 1, interior |-> {i}]

\* A degenerate polygon (collinear vertices): a bounding box, no interior.
LinePolygon(i) == [minx |-> i - 1, maxx |-> i, interior |-> {}]

Bounds(geometry) == geometry.minx .. geometry.maxx

ContainsOrTouches(geometry, x) == x \in Bounds(geometry)

Contains(geometry, x) == x \in geometry.interior

----------------------------------------------------------------------------
(* generate_patrol_points *)

PrecinctRows(i) ==
    {[PCT_NUM |-> p, area_sq_km |-> a, geometry |-> RowPolygon(i)] :
        p \in PctNums, a \in 1..MaxArea}
    \cup {[PCT_NUM |-> p, area_sq_km |-> 0, geometry |-> LinePolygon(i)] :
        p \in PctNums}

PrecinctTables ==
    {t \in SeqsUpTo(UNION {PrecinctRows(i) : i \in 1..MaxPrecinctRows},
                    1, MaxPrecinctRows) :
        \A i \in 1..Len(t) : t[i] \in PrecinctRows(i)}

TotalArea(precincts) == SumSeq(Column(precincts, "area_sq_km"))

\* int(x) of a non-negative quotient n/d: truncation
Trunc(n, d) == n \div d

\* round(x) of a non-negative quotient n/d: nearest integer, a half to even
Round(n, d) ==
    LET q == n \div d
        r == n % d
    IN  IF 2 * r > d THEN q + 1
        ELSE IF 2 * r < d THEN q
        ELSE IF q % 2 = 0 THEN q ELSE q + 1

QuotaRounded(precincts, budget, i) ==
    Max(5, Round(budget * precincts[i].area_sq_km, TotalArea(precincts)))

\* precinct_points = max(5, int(num_points * area_proportion))
Quota(precincts, budget, i) ==
    Max(5, Trunc(budget * precincts[i].area_sq_km, TotalArea(precincts)))

NewPoint(precinct, x, n) ==
    [geometry |-> x,
     precinct |-> precinct.PCT_NUM,
     patrol_id |-> <<"P", precinct.PCT_NUM, n + 1>>]

\* for idx, precinct in constable_precincts.iterrows(): quota and bounds
GenBeginRow ==
    /\ pc = "generate"
    /\ idx <= Len(constable_precincts)
    /\ TotalArea(constable_precincts) # 0
    /\ precinct_points' = Quota(constable_precincts, num_points, idx)
    /\ points' = <<>>
    /\ pc' = "sampling"
    /\ UNCHANGED <<constable_precincts, num_points, idx, sample, all_points,
                   patrol_points, num_stations_per_precinct, optVars,
                   patrol_stations, zipcodes, equity_metrics>>

\* area / sum is nan when every area is 0, and int(nan) raises ValueError
GenRaise ==
    /\ pc = "generate"
    /\ idx <= Len(constable_precincts)
    /\ TotalArea(constable_precincts) = 0
    /\ pc' = "error"
    /\ UNCHANGED <<constable_precincts, num_points, genVars, patrol_points,
                   num_stations_per_precinct, optVars, patrol_stations,
                   zipcodes, equity_metrics>>

\* one turn of the while loop whose point the polygon does not contain
SampleReject ==
    /\ pc = "sampling"
    /\ Len(points) < precinct_points
    /\ \E x \in Bounds(constable_precincts[idx].geometry) :
        /\ ~Contains(constable_precincts[idx].geometry, x)
        /\ sample' = x
    /\ UNCHANGED <<pc, constable_precincts, num_points, idx, precinct_points,
                   points, all_points, patrol_points,
                   num_stations_per_precinct, optVars, patrol_stations,
                   zipcodes, equity_metrics>>

\* one turn of the while loop whose point the polygon contains
SampleAccept ==
    /\ pc = "sampling"
    /\ Len(points) < precinct_points
    /\ \E x \in Bounds(constable_precincts[idx].geometry) :
        /\ Contains(constable_precincts[idx].geometry, x)
        /\ sample' = x
        /\ points' = Append(points,
                            NewPoint(constable_precincts[idx], x, Len(points)))
    /\ UNCHANGED <<pc, constable_precincts, num_points, idx, precinct_points,
                   all_points, patrol_points, num_stations_per_precinct,
                   optVars, patrol_stations, zipcodes, equity_metrics>>

\* all_points.extend(points), next row
GenEndRow ==
    /\ pc = "sampling"
    /\ Len(points) >= precinct_points
    /\ all_points' = all_points \o points
    /\ idx' = idx + 1
    /\ pc' = "generate"
    /\ UNCHANGED <<constable_precincts, num_points, precinct_points, points,
                   sample, patrol_points, num_stations_per_precinct, optVars,
                   patrol_stations, zipcodes, equity_metrics>>

\* gpd.GeoDataFrame(all_points, crs=...) of an empty list has no geometry
\* column: building it with a crs raises, and so does writing it in main
GenEmptyRaise ==
    /\ pc = "generate"
    /\ idx > Len(constable_precincts)
    /\ all_points = <<>>
    /\ pc' = "error"
    /\ UNCHANGED <<constable_precincts, num_points, genVars, patrol_points,
                   num_stations_per_precinct, optVars, patrol_stations,
                   zipcodes, equity_metrics>>

\* return patrol_points
GenReturn ==
    /\ pc = "generate"
    /\ idx > Len(constable_precincts)
    /\ all_points # <<>>
    /\ patrol_points' = all_points
    /\ pc' = "optimize"
    /\ UNCHANGED <<constable_precincts, num_points, genVars,
                   num_stations_per_precinct, optVars, patrol_stations,
                   zipcodes, equity_metrics>>

GeneratePatrolPoints ==
    \/ GenBeginRow
    \/ GenRaise
    \/ SampleReject
    \/ SampleAccept
    \/ GenEndRow
    \/ GenEmptyRaise
    \/ GenReturn

InitGen ==
    /\ pc = "generate"
    /\ constable_precincts \in PrecinctTables \cup {<<>>}
    /\ num_points \in 0..MaxNumPoints
    /\ idx = 1
    /\ precinct_points = 0
    /\ points = <<>>
    /\ sample = -1
    /\ all_points = <<>>
    /\ patrol_points = <<>>
    /\ num_stations_per_precinct = 3
    /\ opt_idx = 1
    /\ optimal_stations = <<>>
    /\ patrol_stations = <<>>
    /\ zipcodes = <<>>
    /\ equity_metrics = None

NextGen == GeneratePatrolPoints

SpecGen == InitGen /\ [][NextGen]_vars

\* The random source draws every coordinate of the bounding box again and
\* again: a turn of the loop is always taken, and an accepting draw that stays
\* possible is eventually made.
FairGen == SpecGen /\ WF_vars(NextGen) /\ SF_vars(SampleAccept)

----------------------------------------------------------------------------
(* optimize_patrol_stations *)

RECURSIVE Unique(_)
\* constable_precincts['PCT_NUM'].unique(): distinct values, first appearance
Unique(s) ==
    IF s = <<>> THEN <<>>
    ELSE LET rest == Unique(SubSeq(s, 1, Len(s) - 1))
             last == s[Len(s)]
         IN  IF \E i \in 1..Len(rest) : rest[i] = last
             THEN rest ELSE Append(rest, last)

\* patrol_points[patrol_points['precinct'] == precinct_num]
PointsOfPrecinct(pts, precinct_num) ==
    SelectSeq(pts, LAMBDA p : p.precinct = precinct_num)

NotEnoughPointsOffByOne(pts, k) == Len(pts) <= k

NotEnoughPointsSwapped(pts, k) == k < Len(pts)

\* len(precinct_points) < num_stations_per_precinct
NotEnoughPoints(pts, k) == Len(pts) < k

\* The cells between the leftmost and the rightmost point: where KMeans can
\* put a cluster centre (a mean of points).
Hull(pts) ==
    LET xs == {pts[i].geometry : i \in 1..Len(pts)}
    IN  SetMin(xs) .. SetMax(xs)

\* kmeans.fit_predict: the index of the nearest centre (the first on a tie)
Label(centers, x) ==
    CHOOSE i \in 1..Len(centers) :
        /\ \A j \in 1..Len(centers) : Abs(centers[i] - x) <= Abs(centers[j] - x)
        /\ \A j \in 1..(i - 1) : Abs(centers[j] - x) > Abs(centers[i] - x)

ClusterSizeOfAllPoints(centers, pts, i) ==
    Cardinality({j \in 1..Len(patrol_points) :
                    Label(centers, patrol_points[j].geometry) = i})

\* np.sum(clusters == i)
ClusterSize(centers, pts, i) ==
    Cardinality({j \in 1..Len(pts) : Label(centers, pts[j].geometry) = i})

NewStationsZeroBased(precinct_num, centers, pts) ==
    [i \in 1..Len(centers) |->
        [geometry |-> centers[i],
         precinct |-> precinct_num,
         station_id |-> <<"S", precinct_num, i - 1>>,
         cluster_size |-> ClusterSize(centers, pts, i)]]

\* the stations of one precinct, one per cluster centre
NewStations(precinct_num, centers, pts) ==
    [i \in 1..Len(centers) |->
        [geometry |-> centers[i],
         precinct |-> precinct_num,
         station_id |-> <<"S", precinct_num, i>>,
         cluster_size |-> ClusterSize(centers, pts, i)]]

\* one turn of the for loop: the precinct has too few points
OptSkipPrecinct ==
    /\ pc = "optimize"
    /\ opt_idx <= Len(Unique(Column(constable_precincts, "PCT_NUM")))
    /\ NotEnoughPoints(
          PointsOfPrecinct(patrol_points,
              Unique(Column(constable_precincts, "PCT_NUM"))[opt_idx]),
          num_stations_per_precinct)
    /\ opt_idx' = opt_idx + 1
    /\ UNCHANGED <<pc, constable_precincts, num_points, genVars, patrol_points,
                   num_stations_per_precinct, optimal_stations,
                   patrol_stations, zipcodes, equity_metrics>>

\* one turn of the for loop: KMeans with n_clusters centres, one station each
OptClusterPrecinct ==
    /\ pc = "optimize"
    /\ opt_idx <= Len(Unique(Column(constable_precincts, "PCT_NUM")))
    /\ LET precinct_num ==
               Unique(Column(constable_precincts, "PCT_NUM"))[opt_idx]
           pts == PointsOfPrecinct(patrol_points, precinct_num)
       IN  /\ ~NotEnoughPoints(pts, num_stations_per_precinct)
           /\ \E centers \in [1..num_stations_per_precinct -> Hull(pts)] :
                 optimal_stations' =
                     optimal_stations \o NewStations(precinct_num, centers, pts)
    /\ opt_idx' = opt_idx + 1
    /\ UNCHANGED <<pc, constable_precincts, num_points, genVars, patrol_points,
                   num_stations_per_precinct, patrol_stations, zipcodes,
                   equity_metrics>>

OptReturnEarly ==
    /\ pc = "optimize"
    /\ opt_idx > 1
    /\ patrol_stations' = optimal_stations
    /\ pc' = "analyze"
    /\ UNCHANGED <<constable_precincts, num_points, genVars, patrol_points,
                   num_stations_per_precinct, opt_idx, optimal_stations,
                   zipcodes, equity_metrics>>

\* return stations_gdf
OptReturn ==
    /\ pc = "optimize"
    /\ opt_idx > Len(Unique(Column(constable_precincts, "PCT_NUM")))
    /\ patrol_stations' = optimal_stations
    /\ pc' = "analyze"
    /\ UNCHANGED <<constable_precincts, num_points, genVars, patrol_points,
                   num_stations_per_precinct, opt_idx, optimal_stations,
                   zipcodes, equity_metrics>>

OptimizePatrolStations ==
    \/ OptSkipPrecinct
    \/ OptClusterPrecinct
    \/ OptReturn

\* The points generate_patrol_points returns for a table without degenerate
\* polygons: for each row its quota of points, each at a cell of the row's
\* interior (here the only one).
RECURSIVE GeneratedPoints(_, _, _)
GeneratedPoints(precincts, budget, rows) ==
    IF rows = 0 THEN <<>>
    ELSE GeneratedPoints(precincts, budget, rows - 1)
         \o [n \in 1..Quota(precincts, budget, rows) |->
                NewPoint(precincts[rows],
                         CHOOSE x \in Bounds(precincts[rows].geometry) :
                             Contains(precincts[rows].geometry, x),
                         n - 1)]

Samplable(precincts) ==
    \A i \in 1..Len(precincts) : precincts[i].geometry.interior # {}

\* num_stations_per_precinct: main passes 3; 1 and 6 (more than the quota
\* floor of 5) are the other values tried.
StationChoices == {1, 3, 6}

InitOpt ==
    /\ pc = "optimize"
    /\ constable_precincts \in {t \in PrecinctTables : Samplable(t)}
    /\ num_points \in {0, MaxNumPoints}
    /\ idx = Len(constable_precincts) + 1
    /\ precinct_points = 0
    /\ points = <<>>
    /\ sample = -1
    /\ all_points =
          GeneratedPoints(constable_precincts, num_points,
                          Len(constable_precincts))
    /\ patrol_points = all_points
    /\ num_stations_per_precinct \in StationChoices
    /\ opt_idx = 1
    /\ optimal_stations = <<>>
    /\ patrol_stations = <<>>
    /\ zipcodes = <<>>
    /\ equity_metrics = None

SpecOpt == InitOpt /\ [][OptimizePatrolStations]_vars

----------------------------------------------------------------------------
(* analyze_service_coverage *)

\* A missing value of a float column (numpy's nan)
NaN == -1

IsNaN(x) == x = NaN

\* float('inf')
Infinity == 1000000000

\* to_crs(epsg=3857): a cell of the source frame in metres
CellMetres == 1000

ToCrs(x) == x * CellMetres

\* min_dist / 1000  # Convert meters to kilometers
Km(metres) == IF metres = Infinity THEN Infinity ELSE metres \div 1000

\* zipcode.centroid.distance(station.geometry), both in the projected frame
Distance(zone, station) == Abs(ToCrs(zone.geometry) - ToCrs(station.geometry))

CloserOrEqual(dist, min_dist) == dist <= min_dist

\* dist < min_dist
Closer(dist, min_dist) == dist < min_dist

RECURSIVE ScanStations(_, _, _)
\* for _, station in patrol_stations_projected.iterrows(): the best so far
\* after the first n stations
ScanStations(zone, stations, n) ==
    IF n = 0 THEN [min_dist |-> Infinity, nearest_station |-> <<>>]
    ELSE LET best == ScanStations(zone, stations, n - 1)
             dist == Distance(zone, stations[n])
         IN  IF Closer(dist, best.min_dist)
             THEN [min_dist |-> dist,
                   nearest_station |-> stations[n].station_id]
             ELSE best

NearestOrZero(zone, stations) ==
    IF stations = <<>> THEN [min_dist |-> 0, nearest_station |-> <<>>]
    ELSE ScanStations(zone, stations, Len(stations))

Nearest(zone, stations) == ScanStations(zone, stations, Len(stations))

FirstRowWithKey(table, col, key) ==
    SetMin({i \in 1..Len(table) : table[i][col] = key})

\* a dict filled in row order: the last row with the key wins
LastRowWithKey(table, col, key) ==
    SetMax({i \in 1..Len(table) : table[i][col] = key})

AnnotatedZonesPrecinctOfRow(zones, stations) ==
    [i \in 1..Len(zones) |->
        LET best == Nearest(zones[LastRowWithKey(zones, "ZIP", zones[i].ZIP)],
                            stations)
            own == Nearest(zones[i], stations)
        IN  [ZIP |-> zones[i].ZIP,
             area_sq_km |-> zones[i].area_sq_km,
             geometry |-> zones[i].geometry,
             nearest_station |-> best.nearest_station,
             distance_km |-> Km(best.min_dist),
             precinct |->
                 IF own.nearest_station = <<>> THEN NaN
                 ELSE stations[LastRowWithKey(stations, "station_id",
                                              own.nearest_station)].precinct]]

AnnotatedZonesKeepingCentroid(zones, stations) ==
    [i \in 1..Len(zones) |->
        LET best == Nearest(zones[LastRowWithKey(zones, "ZIP", zones[i].ZIP)],
                            stations)
        IN  [ZIP |-> zones[i].ZIP,
             area_sq_km |-> zones[i].area_sq_km,
             geometry |-> ToCrs(zones[i].geometry),
             nearest_station |-> best.nearest_station,
             distance_km |-> Km(best.min_dist),
             precinct |->
                 IF best.nearest_station = <<>> THEN NaN
                 ELSE stations[LastRowWithKey(stations, "station_id",
                                              best.nearest_station)].precinct]]

\* zipcodes['ZIP'].map(assignments), zipcodes['ZIP'].map(distances),
\* zipcodes['nearest_station'].map(station_precincts)
AnnotatedZones(zones, stations) ==
    [i \in 1..Len(zones) |->
        LET best == Nearest(zones[LastRowWithKey(zones, "ZIP", zones[i].ZIP)],
                            stations)
        IN  [ZIP |-> zones[i].ZIP,
             area_sq_km |-> zones[i].area_sq_km,
             geometry |-> zones[i].geometry,
             nearest_station |-> best.nearest_station,
             distance_km |-> Km(best.min_dist),
             precinct |->
                 IF best.nearest_station = <<>> THEN NaN
                 ELSE stations[LastRowWithKey(stations, "station_id",
                                              best.nearest_station)].precinct]]

\* the rows of one group of zipcodes.groupby('nearest_station')
ServiceGroup(zones, station_id) ==
    SelectSeq(zones, LAMBDA z : z.nearest_station = station_id)

FirstArea(group) == IF group = <<>> THEN 0 ELSE group[1].area_sq_km

\* 'area_sq_km': 'sum'
ServiceArea(group) == SumSeq(Column(group, "area_sq_km"))

\* 'distance_km': 'mean', the fraction <<sum, count>>
AvgDistance(group) == <<SumSeq(Column(group, "distance_km")), Len(group)>>

ZipcodeCountDistinct(group) ==
    Cardinality({group[i].ZIP : i \in 1..Len(group)})

\* 'ZIP': 'count'
ZipcodeCount(group) == Len(group)

\* zipcodes.groupby('nearest_station').agg(...).reset_index(): one row per
\* nearest_station value that is not missing.  (pandas lists the rows by
\* ascending key, here they are in order of first appearance; the left merge
\* does not depend on the order.)
ServiceAreas(zones) ==
    LET keys == SelectSeq(Unique(Column(zones, "nearest_station")),
                          LAMBDA k : k # <<>>)
    IN  [g \in 1..Len(keys) |->
            LET group == ServiceGroup(zones, keys[g])
            IN  [station_id |-> keys[g],
                 service_area_sq_km |-> ServiceArea(group),
                 avg_distance_km |-> AvgDistance(group),
                 zipcode_count |-> ZipcodeCount(group)]]

\* the columns of a left row that has no match: nan (as a fraction, 0/0)
MissingMetrics ==
    [service_area_sq_km |-> NaN,
     avg_distance_km |-> <<0, 0>>,
     zipcode_count |-> NaN]

MergedRowProjected(station, metrics) ==
    [geometry |-> ToCrs(station.geometry),
     precinct |-> station.precinct,
     station_id |-> station.station_id,
     cluster_size |-> station.cluster_size,
     service_area_sq_km |-> metrics.service_area_sq_km,
     avg_distance_km |-> metrics.avg_distance_km,
     zipcode_count |-> metrics.zipcode_count]

MergedRow(station, metrics) ==
    [geometry |-> station.geometry,
     precinct |-> station.precinct,
     station_id |-> station.station_id,
     cluster_size |-> station.cluster_size,
     service_area_sq_km |-> metrics.service_area_sq_km,
     avg_distance_km |-> metrics.avg_distance_km,
     zipcode_count |-> metrics.zipcode_count]

RECURSIVE MergeFirst(_, _, _, _)
\* DataFrame.merge on station_id of the first n left rows: a left row gives
\* one row per matching right row, and with how = 'left' one row of missing
\* values when nothing matches
MergeFirst(stations, service_areas, n, how) ==
    IF n = 0 THEN <<>>
    ELSE LET matching ==
                 SelectSeq(service_areas,
                           LAMBDA r : r.station_id = stations[n].station_id)
         IN  MergeFirst(stations, service_areas, n - 1, how)
             \o (IF matching # <<>>
                 THEN [j \in 1..Len(matching) |->
                          MergedRow(stations[n], matching[j])]
                 ELSE IF how = "left"
                      THEN <<MergedRow(stations[n], MissingMetrics)>>
                      ELSE <<>>)

InnerMerge(stations, service_areas) ==
    MergeFirst(stations, service_areas, Len(stations), "inner")

\* patrol_stations.merge(service_areas, ..., how='left')
LeftMerge(stations, service_areas) ==
    MergeFirst(stations, service_areas, Len(stations), "left")

\* fillna(0) of a number and of a fraction
FillNa(x) == IF IsNaN(x) THEN 0 ELSE x

FillNaFraction(q) == IF q[2] = 0 THEN <<0, 1>> ELSE q

\* the merge and the three fillna(0)
StationsWithMetrics(stations, zones) ==
    LET merged == LeftMerge(stations, ServiceAreas(zones))
    IN  [i \in 1..Len(merged) |->
            [geometry |-> merged[i].geometry,
             precinct |-> merged[i].precinct,
             station_id |-> merged[i].station_id,
             cluster_size |-> merged[i].cluster_size,
             service_area_sq_km |-> FillNa(merged[i].service_area_sq_km),
             avg_distance_km |-> FillNaFraction(merged[i].avg_distance_km),
             zipcode_count |-> FillNa(merged[i].zipcode_count)]]

ZipCodes == {77001, 77002}

ZoneCells == {0, 1, 3}

ZoneAreas == {1, 2}

ZoneRows ==
    {[ZIP |-> z, area_sq_km |-> a, geometry |-> c] :
        z \in ZipCodes, a \in ZoneAreas, c \in ZoneCells}

\* Zone tables; several rows may carry the same ZIP value.
ZoneTables == SeqsUpTo(ZoneRows, 0, MaxZones)

\* The whole function, on a zone table of the set tables (main reads the
\* table first and does not touch it before this call; the model draws it
\* here).
Analyze(tables) ==
    /\ pc = "analyze"
    /\ patrol_stations # <<>>
    /\ \E zones \in tables :
          /\ zipcodes' = AnnotatedZones(zones, patrol_stations)
          /\ patrol_stations' =
                StationsWithMetrics(patrol_stations,
                                    AnnotatedZones(zones, patrol_stations))
    /\ pc' = "equity"
    /\ UNCHANGED <<constable_precincts, num_points, genVars, patrol_points,
                   num_stations_per_precinct, optVars, equity_metrics>>

\* The function called on any zone table that has the columns ZIP, area_sq_km
\* and geometry, a table without rows included.
AnalyzeServiceCoverage == Analyze(ZoneTables)

AnalyzeZonesWithoutRows == Analyze(ZoneTables)

\* The function called by main: the zone table is read from a GeoJSON file,
\* and one with features has the columns.
AnalyzeLoadedZones == Analyze(ZoneTables \ {<<>>})

\* The zone table main reads from a GeoJSON file without features has no
\* property columns: zipcodes['ZIP'] raises KeyError after the (empty) loop,
\* and main ends with the exception.
EmptyZonesRaise ==
    /\ pc = "analyze"
    /\ patrol_stations # <<>>
    /\ zipcodes = <<>>
    /\ pc' = "error"
    /\ UNCHANGED <<constable_precincts, num_points, genVars, patrol_points,
                   num_stations_per_precinct, optVars, patrol_stations,
                   zipcodes, equity_metrics>>

\* With no station at all the station table is an empty GeoDataFrame without a
\* geometry column: building it with a crs, writing it or projecting it
\* (to_crs) raises, and main ends with the exception.
EmptyStationsRaise ==
    /\ pc = "analyze"
    /\ patrol_stations = <<>>
    /\ pc' = "error"
    /\ UNCHANGED <<constable_precincts, num_points, genVars, patrol_points,
                   num_stations_per_precinct, optVars, patrol_stations,
                   zipcodes, equity_metrics>>

RECURSIVE StationsOfFirst(_, _, _, _)
\* The stations optimize_patrol_stations returns for the first n precinct
\* numbers when KMeans puts the centres of precinct p at choice[p].
StationsOfFirst(nums, pts, choice, n) ==
    IF n = 0 THEN <<>>
    ELSE StationsOfFirst(nums, pts, choice, n - 1)
         \o NewStations(nums[n], choice[nums[n]],
                        PointsOfPrecinct(pts, nums[n]))

\* Station tables as optimize_patrol_stations returns them for precincts at
\* the quota floor of 5 points each.
InitAssign ==
    /\ pc = "analyze"
    /\ constable_precincts \in
          {t \in PrecinctTables :
              Samplable(t) /\ \A i \in 1..Len(t) : t[i].area_sq_km = 1}
    /\ num_points = 0
    /\ idx = Len(constable_precincts) + 1
    /\ precinct_points = 0
    /\ points = <<>>
    /\ sample = -1
    /\ all_points =
          GeneratedPoints(constable_precincts, num_points,
                          Len(constable_precincts))
    /\ patrol_points = all_points
    /\ num_stations_per_precinct \in 1..MaxStations
    /\ opt_idx = Len(Unique(Column(constable_precincts, "PCT_NUM"))) + 1
    /\ \E choice \in [PctNums ->
                        [1..num_stations_per_precinct -> PrecinctCells]] :
          LET nums == Unique(Column(constable_precincts, "PCT_NUM"))
          IN  /\ \A p \in PctNums :
                    \A i \in 1..num_stations_per_precinct :
                        IF \E n \in 1..Len(nums) : nums[n] = p
                        THEN choice[p][i]
                                \in Hull(PointsOfPrecinct(patrol_points, p))
                        ELSE choice[p][i] = 0
              /\ optimal_stations =
                    StationsOfFirst(nums, patrol_points, choice, Len(nums))
    /\ patrol_stations = optimal_stations
    /\ zipcodes = <<>>
    /\ equity_metrics = None

SpecAssign == InitAssign /\ [][AnalyzeServiceCoverage]_vars

\* A second call of the function, on the zone table the first call annotated
\* in place and on the facility table the first call was given.
AnalyzeServiceCoverageAgain ==
    /\ pc = "equity"
    /\ optimal_stations # <<>>
    /\ zipcodes' = AnnotatedZones(zipcodes, optimal_stations)
    /\ patrol_stations' =
          StationsWithMetrics(optimal_stations,
                              AnnotatedZones(zipcodes, optimal_stations))
    /\ pc' = "analyzed twice"
    /\ UNCHANGED <<constable_precincts, num_points, genVars, patrol_points,
                   num_stations_per_precinct, optVars, equity_metrics>>

SpecReassign ==
    InitAssign /\ [][AnalyzeServiceCoverage \/ AnalyzeServiceCoverageAgain]_vars

----------------------------------------------------------------------------
(* calculate_equity_metrics *)

\* threshold_distance = 10  # km
threshold_distance == 10

\* distances[~np.isnan(distances)]
DropNaN(d) == SelectSeq(d, LAMBDA x : ~IsNaN(x))

RECURSIVE Insert(_, _)
Insert(x, s) ==
    IF s = <<>> THEN <<x>>
    ELSE IF x <= Head(s) THEN <<x>> \o s
    ELSE <<Head(s)>> \o Insert(x, Tail(s))

RECURSIVE SortAscending(_)
SortAscending(d) ==
    IF d = <<>> THEN <<>> ELSE Insert(Head(d), SortAscending(Tail(d)))

Unsorted(d) == d

\* np.sort(distances)
Sort(d) == SortAscending(d)

RankWeightOffByOne(n, i) == 2 * i - n

\* 2 * index - n - 1
RankWeight(n, i) == 2 * i - n - 1

\* np.sum((2 * index - n - 1) * distances)
GiniNumerator(d) ==
    SumSeq([i \in 1..Len(d) |-> RankWeight(Len(d), i) * d[i]])

GiniDenominatorWithoutN(d) == SumSeq(d)

\* n * np.sum(distances)
GiniDenominator(d) == Len(d) * SumSeq(d)

\* The fraction <<numerator, denominator>> the division is applied to; a zero
\* denominator (then the numerator is zero too) makes the float nan.
Gini(zones) ==
    LET distances == Sort(DropNaN(Column(zones, "distance_km")))
    IN  <<GiniNumerator(distances), GiniDenominator(distances)>>

CoveredBeyond(zones) ==
    SelectSeq(zones, LAMBDA z : ~IsNaN(z.distance_km)
                                /\ z.distance_km >= threshold_distance)

\* zipcodes[zipcodes['distance_km'] <= threshold_distance]: nan compares False
Covered(zones) ==
    SelectSeq(zones, LAMBDA z : ~IsNaN(z.distance_km)
                                /\ z.distance_km <= threshold_distance)

\* covered_zipcodes['area_sq_km'].sum() / zipcodes['area_sq_km'].sum()
CoverageRatio(zones) ==
    <<SumSeq(Column(Covered(zones), "area_sq_km")),
      SumSeq(Column(zones, "area_sq_km"))>>

PrecinctMetricsOfEveryPrecinct(zones) ==
    LET keys == {constable_precincts[i].PCT_NUM :
                    i \in 1..Len(constable_precincts)}
        group(k) == SelectSeq(zones, LAMBDA z : z.precinct = k)
        dist(k) == DropNaN(Column(group(k), "distance_km"))
        vals(k) == {dist(k)[i] : i \in 1..Len(dist(k))}
        row(k) ==
            [precinct |-> k,
             avg_distance_km |-> <<SumSeq(dist(k)), Len(dist(k))>>,
             max_distance_km |-> IF vals(k) = {} THEN NaN ELSE SetMax(vals(k)),
             min_distance_km |-> IF vals(k) = {} THEN NaN ELSE SetMin(vals(k)),
             zipcode_count |->
                 Len(SelectSeq(group(k), LAMBDA z : ~IsNaN(z.ZIP)))]
        ordered ==
            [i \in 1..Cardinality(keys) |->
                CHOOSE k \in keys : Cardinality({j \in keys : j < k}) = i - 1]
    IN  [i \in 1..Len(ordered) |-> row(ordered[i])]

\* zipcodes.groupby('precinct').agg(mean, max, min, count): one row per
\* precinct value that is not missing, in ascending order of the key; the
\* mean is the fraction <<sum, count>> of the distances that are not nan.
\* (The standard deviation column is not modelled.)
PrecinctMetrics(zones) ==
    LET keys == {zones[i].precinct : i \in 1..Len(zones)} \ {NaN}
        group(k) == SelectSeq(zones, LAMBDA z : z.precinct = k)
        dist(k) == DropNaN(Column(group(k), "distance_km"))
        vals(k) == {dist(k)[i] : i \in 1..Len(dist(k))}
        row(k) ==
            [precinct |-> k,
             avg_distance_km |-> <<SumSeq(dist(k)), Len(dist(k))>>,
             max_distance_km |-> IF vals(k) = {} THEN NaN ELSE SetMax(vals(k)),
             min_distance_km |-> IF vals(k) = {} THEN NaN ELSE SetMin(vals(k)),
             zipcode_count |->
                 Len(SelectSeq(group(k), LAMBDA z : ~IsNaN(z.ZIP)))]
        ordered ==
            [i \in 1..Cardinality(keys) |->
                CHOOSE k \in keys : Cardinality({j \in keys : j < k}) = i - 1]
    IN  [i \in 1..Len(ordered) |-> row(ordered[i])]

EquityMetrics(zones) ==
    [gini_coefficient |-> Gini(zones),
     coverage_ratio |-> CoverageRatio(zones),
     threshold_distance_km |-> threshold_distance,
     precinct_metrics |-> PrecinctMetrics(zones)]

CalculateEquityMetrics ==
    /\ pc = "equity"
    /\ equity_metrics' = EquityMetrics(zipcodes)
    /\ pc' = "done"
    /\ UNCHANGED <<constable_precincts, num_points, genVars, patrol_points,
                   num_stations_per_precinct, optVars, patrol_stations,
                   zipcodes>>

\* Zone tables as analyze_service_coverage leaves them, every zone served by
\* one facility: the distances are the input of the metrics.
DistanceChoices == {0, 1, 2, 3, 4, 10, 11, NaN}

EquityZone(i, d) ==
    [ZIP |-> IF IsNaN(d) THEN NaN ELSE i,
     area_sq_km |-> 1,
     geometry |-> 0,
     nearest_station |-> IF IsNaN(d) THEN <<>> ELSE <<"S", 1, 1>>,
     distance_km |-> d,
     precinct |-> IF IsNaN(d) THEN NaN ELSE 1]

InitEquity ==
    /\ pc = "equity"
    /\ constable_precincts = <<>>
    /\ num_points = 0
    /\ idx = 1
    /\ precinct_points = 0
    /\ points = <<>>
    /\ sample = -1
    /\ all_points = <<>>
    /\ patrol_points = <<>>
    /\ num_stations_per_precinct = 3
    /\ opt_idx = 1
    /\ optimal_stations = <<>>
    /\ patrol_stations = <<>>
    /\ \E d \in SeqsUpTo(DistanceChoices, 0, MaxEquityZones) :
          zipcodes = [i \in 1..Len(d) |-> EquityZone(i, d[i])]
    /\ equity_metrics = None

SpecEquity == InitEquity /\ [][CalculateEquityMetrics]_vars

----------------------------------------------------------------------------
(* main: generate, optimize, analyze, equity metrics *)

DistinctPctNums(precincts) ==
    \A i, j \in 1..Len(precincts) :
        precincts[i].PCT_NUM = precincts[j].PCT_NUM => i = j

\* One run of main on a precinct table whose PCT_NUM values are distinct.
Init ==
    /\ pc = "generate"
    /\ constable_precincts \in
          {t \in PrecinctTables : DistinctPctNums(t)} \cup {<<>>}
    /\ num_points \in {0, MaxNumPoints}
    /\ idx = 1
    /\ precinct_points = 0
    /\ points = <<>>
    /\ sample = -1
    /\ all_points = <<>>
    /\ patrol_points = <<>>
    /\ num_stations_per_precinct \in {3, 6}
    /\ opt_idx = 1
    /\ optimal_stations = <<>>
    /\ patrol_stations = <<>>
    /\ zipcodes = <<>>
    /\ equity_metrics = None

Next ==
    \/ GeneratePatrolPoints
    \/ OptimizePatrolStations
    \/ AnalyzeLoadedZones
    \/ EmptyZonesRaise
    \/ EmptyStationsRaise
    \/ CalculateEquityMetrics

Spec == Init /\ [][Next]_vars

----------------------------------------------------------------------------
(* optimize and analyze on a table with a precinct that is skipped *)

\* Precinct tables of one row more, the precinct numbers distinct (the row
\* index), every polygon with an interior.
SkipTables ==
    {[i \in 1..(MaxPrecinctRows + 1) |->
         [PCT_NUM |-> i, area_sq_km |-> area[i], geometry |-> RowPolygon(i)]] :
        area \in [1..(MaxPrecinctRows + 1) -> 1..MaxArea]}

\* A point budget that gives the larger precincts of such a table more than
\* the floor of 5 points.
SkipNumPoints == MaxNumPoints + 5

\* optimize_patrol_stations is entered with the points generate_patrol_points
\* returns and is asked for 6 stations per precinct, one more than the floor.
InitSkip ==
    /\ pc = "optimize"
    /\ constable_precincts \in SkipTables
    /\ num_points = SkipNumPoints
    /\ idx = Len(constable_precincts) + 1
    /\ precinct_points = 0
    /\ points = <<>>
    /\ sample = -1
    /\ all_points =
          GeneratedPoints(constable_precincts, num_points,
                          Len(constable_precincts))
    /\ patrol_points = all_points
    /\ num_stations_per_precinct = 6
    /\ opt_idx = 1
    /\ optimal_stations = <<>>
    /\ patrol_stations = <<>>
    /\ zipcodes = <<>>
    /\ equity_metrics = None

NextSkip ==
    \/ OptimizePatrolStations
    \/ AnalyzeServiceCoverage
    \/ EmptyStationsRaise

SpecSkip == InitSkip /\ [][NextSkip]_vars

----------------------------------------------------------------------------
(* analyze_service_coverage called on a facility table without rows *)

\* The function on a facility table that has its columns and no row: the
\* station loop runs no turn for any zone, the dicts map every ZIP to None
\* and to inf / 1000, every zone has a missing group key and the merge has
\* no left row.
AnalyzeWithoutStations ==
    /\ pc = "analyze"
    /\ patrol_stations = <<>>
    /\ \E zones \in ZoneTables :
          /\ zipcodes' = AnnotatedZones(zones, patrol_stations)
          /\ patrol_stations' =
                StationsWithMetrics(patrol_stations,
                                    AnnotatedZones(zones, patrol_stations))
    /\ pc' = "equity"
    /\ UNCHANGED <<constable_precincts, num_points, genVars, patrol_points,
                   num_stations_per_precinct, optVars, equity_metrics>>

\* The function is entered with no facility: every precinct has the floor of
\* 5 points and 6 stations per precinct were asked for.
InitNoStations ==
    /\ pc = "analyze"
    /\ constable_precincts \in
          {t \in PrecinctTables :
              /\ Samplable(t)
              /\ DistinctPctNums(t)
              /\ \A i \in 1..Len(t) : t[i].area_sq_km = 1}
    /\ num_points = 0
    /\ idx = Len(constable_precincts) + 1
    /\ precinct_points = 0
    /\ points = <<>>
    /\ sample = -1
    /\ all_points =
          GeneratedPoints(constable_precincts, num_points,
                          Len(constable_precincts))
    /\ patrol_points = all_points
    /\ num_stations_per_precinct = 6
    /\ opt_idx = Len(Unique(Column(constable_precincts, "PCT_NUM"))) + 1
    /\ optimal_stations = <<>>
    /\ patrol_stations = <<>>
    /\ zipcodes = <<>>
    /\ equity_metrics = None

\* A facility table without rows either has its columns or, built from an
\* empty list of records, has none and makes the function raise.
NextNoStations ==
    \/ AnalyzeServiceCoverage
    \/ AnalyzeWithoutStations
    \/ EmptyStationsRaise

SpecNoStations == (InitAssign \/ InitNoStations) /\ [][NextNoStations]_vars

----------------------------------------------------------------------------
(* generate_patrol_points called twice in one process *)

\* A polygon with two cells strictly inside.
WidePolygon(i) == [minx |-> i - 1, maxx |-> i + 2, interior |-> {i, i + 1}]

\* One-row precinct tables with such a polygon.
WideTables ==
    {<<[PCT_NUM |-> p, area_sq_km |-> a, geometry |-> WidePolygon(1)]>> :
        p \in PctNums, a \in 1..MaxArea}

\* A further call with the same arguments after a call has returned: the
\* locals start afresh, the caller still holds the earlier result, and the
\* generator of the random module (seeded nowhere in the module) carries on.
GenCallAgain ==
    /\ pc = "optimize"
    /\ pc' = "generate"
    /\ idx' = 1
    /\ precinct_points' = 0
    /\ points' = <<>>
    /\ all_points' = <<>>
    /\ UNCHANGED <<constable_precincts, num_points, sample, patrol_points,
                   num_stations_per_precinct, optVars, patrol_stations,
                   zipcodes, equity_metrics>>

InitRuns ==
    /\ pc = "generate"
    /\ constable_precincts \in WideTables
    /\ num_points = 0
    /\ idx = 1
    /\ precinct_points = 0
    /\ points = <<>>
    /\ sample = -1
    /\ all_points = <<>>
    /\ patrol_points = <<>>
    /\ num_stations_per_precinct = 3
    /\ opt_idx = 1
    /\ optimal_stations = <<>>
    /\ patrol_stations = <<>>
    /\ zipcodes = <<>>
    /\ equity_metrics = None

NextRuns ==
    \/ GenBeginRow
    \/ SampleReject
    \/ SampleAccept
    \/ GenEndRow
    \/ GenReturn
    \/ GenCallAgain

SpecRuns == InitRuns /\ [][NextRuns]_vars

----------------------------------------------------------------------------
(* Claims about generate_patrol_points *)

\* The integer t with t <= budget * area / total < t + 1.
FloorShare(precincts, budget, i) ==
    CHOOSE t \in 0..budget :
        /\ t * TotalArea(precincts) <= budget * precincts[i].area_sq_km
        /\ budget * precincts[i].area_sq_km < (t + 1) * TotalArea(precincts)

\* The integers nearest to budget * area / total.
NearestShares(precincts, budget, i) ==
    {t \in 0..budget + 1 :
        /\ 2 * budget * precincts[i].area_sq_km
              <= (2 * t + 1) * TotalArea(precincts)
        /\ (2 * t - 1) * TotalArea(precincts)
              <= 2 * budget * precincts[i].area_sq_km}

\* C3 as stated: a precinct's quota is max(5, round(num_points * area / sum of
\* areas)), the share rounded to the nearest integer.
C3_QuotaRoundsShare ==
    pc = "sampling" =>
        \E t \in NearestShares(constable_precincts, num_points, idx) :
            precinct_points = Max(5, t)

\* C3 as amended: a precinct's quota is max(5, int(num_points * area / sum of
\* areas)), the share truncated to the integer below it, and the row ends
\* with exactly that many points.
C3_QuotaTruncatesShare ==
    pc = "sampling" =>
        /\ precinct_points =
              Max(5, FloorShare(constable_precincts, num_points, idx))
        /\ Len(points) <= precinct_points

\* A row whose share (such as 20/3) has a fraction above one half has met its
\* quota.
C3_Witness ==
    /\ pc = "sampling"
    /\ precinct_points > 5
    /\ Len(points) = precinct_points
    /\ 2 * ((num_points * constable_precincts[idx].area_sq_km)
               % TotalArea(constable_precincts))
          > TotalArea(constable_precincts)

\* The point-in-polygon test: x is inside, and not on the boundary.
StrictlyInside(geometry, x) ==
    /\ x \in geometry.interior
    /\ geometry.minx < x
    /\ x < geometry.maxx

\* C4: when generate_patrol_points returns, every precinct owns at least 5
\* demand points, and every point carries the number of a precinct whose
\* polygon contains it; while a row is sampled, every point accepted so far
\* is inside that row's polygon and tagged with that row's number.
C4_PointsInsideOwnPrecinct ==
    /\ pc = "sampling" =>
          \A j \in 1..Len(points) :
              /\ points[j].precinct = constable_precincts[idx].PCT_NUM
              /\ StrictlyInside(constable_precincts[idx].geometry,
                               points[j].geometry)
    /\ pc = "optimize" =>
          /\ \A i \in 1..Len(constable_precincts) :
                Cardinality(
                    {j \in 1..Len(patrol_points) :
                        /\ patrol_points[j].precinct
                              = constable_precincts[i].PCT_NUM
                        /\ StrictlyInside(constable_precincts[i].geometry,
                                          patrol_points[j].geometry)}) >= 5
          /\ \A j \in 1..Len(patrol_points) :
                \E i \in 1..Len(constable_precincts) :
                    /\ patrol_points[j].precinct
                          = constable_precincts[i].PCT_NUM
                    /\ StrictlyInside(constable_precincts[i].geometry,
                                      patrol_points[j].geometry)

\* generate_patrol_points has returned the points of two precincts.
C4_Witness ==
    /\ pc = "optimize"
    /\ Len(constable_precincts) = 2
    /\ constable_precincts[1].PCT_NUM # constable_precincts[2].PCT_NUM
    /\ Len(patrol_points) > 10

\* C5: for every precinct the generation step eventually ends (with the quota
\* met or with an error); it never loops forever.
C5_GenerationEnds == <>(pc \in {"optimize", "error"})

----------------------------------------------------------------------------
(* Claims about optimize_patrol_stations *)

\* What generate_patrol_points hands over is what InitOpt and InitAssign
\* start from.
HandoverIsGeneratedPoints ==
    (pc = "optimize" /\ idx > Len(constable_precincts)) =>
        patrol_points =
            GeneratedPoints(constable_precincts, num_points,
                            Len(constable_precincts))

\* The precinct numbers of the precinct table.
PrecinctNumbers ==
    {constable_precincts[i].PCT_NUM : i \in 1..Len(constable_precincts)}

\* The number of demand points tagged with precinct number p.
DemandPointCount(p) ==
    Cardinality({j \in 1..Len(patrol_points) : patrol_points[j].precinct = p})

\* The number of facilities of precinct number p.
FacilityCount(p) ==
    Cardinality({f \in 1..Len(patrol_stations) :
                    patrol_stations[f].precinct = p})

EligiblePrecincts ==
    {p \in PrecinctNumbers : DemandPointCount(p) >= num_stations_per_precinct}

\* C2: optimize_patrol_stations produces exactly facilities_per_precinct
\* facilities for every precinct with at least that many demand points and
\* none for a precinct with fewer; the total is facilities_per_precinct times
\* the number of eligible precincts.
C2_FacilitiesPerEligiblePrecinct ==
    pc = "analyze" =>
        /\ \A p \in PrecinctNumbers :
              FacilityCount(p) =
                  IF p \in EligiblePrecincts
                  THEN num_stations_per_precinct ELSE 0
        /\ Len(patrol_stations) =
              num_stations_per_precinct * Cardinality(EligiblePrecincts)

\* Of two precincts one has exactly as many points as facilities are asked
\* for and the other has fewer and is skipped.
C2_Witness ==
    /\ pc = "analyze"
    /\ \E p \in PrecinctNumbers :
          /\ DemandPointCount(p) = num_stations_per_precinct
          /\ FacilityCount(p) = num_stations_per_precinct
    /\ \E p \in PrecinctNumbers :
          /\ DemandPointCount(p) < num_stations_per_precinct
          /\ FacilityCount(p) = 0

----------------------------------------------------------------------------
(* Claims about analyze_service_coverage *)

\* The stations a zone row records as its nearest_station.
AssignedStations(zone) ==
    {s \in 1..Len(patrol_stations) :
        patrol_stations[s].station_id = zone.nearest_station}

\* Planar distance in metres between a zone's centroid and a station.
MetresBetween(zone, station) ==
    Abs(zone.geometry * 1000 - station.geometry * 1000)

\* C1: after analyze_service_coverage on a non-empty facility set, every zone
\* has exactly one nearest_station, no facility is strictly closer to the
\* zone's centroid than the recorded one, and distance_km is that minimum
\* distance divided by 1000.
C1_EveryZoneNearest ==
    (pc = "equity" /\ patrol_stations # <<>>) =>
        \A i \in 1..Len(zipcodes) :
            /\ Cardinality(AssignedStations(zipcodes[i])) = 1
            /\ \A a \in AssignedStations(zipcodes[i]) :
                  /\ \A f \in 1..Len(patrol_stations) :
                        MetresBetween(zipcodes[i], patrol_stations[f])
                            >= MetresBetween(zipcodes[i], patrol_stations[a])
                  /\ 1000 * zipcodes[i].distance_km
                        = MetresBetween(zipcodes[i], patrol_stations[a])

DistinctZips ==
    \A i, j \in 1..Len(zipcodes) :
        zipcodes[i].ZIP = zipcodes[j].ZIP => i = j

\* The same statement for the zone tables whose ZIP values are all distinct.
NearestWhenZipsDistinct == DistinctZips => C1_EveryZoneNearest

\* C6: after analyze_service_coverage with at least one facility, the sum of
\* service_area_sq_km over the facilities equals the sum of area_sq_km over
\* the zones.
C6_ServiceAreasSumToZoneArea ==
    (pc = "equity" /\ patrol_stations # <<>>) =>
        SumSeq(Column(patrol_stations, "service_area_sq_km"))
            = SumSeq(Column(zipcodes, "area_sq_km"))

\* Two zones of different area are served by one facility while another
\* facility serves none.
C6_Witness ==
    /\ pc = "equity"
    /\ Len(zipcodes) = 2
    /\ zipcodes[1].area_sq_km # zipcodes[2].area_sq_km
    /\ zipcodes[1].nearest_station = zipcodes[2].nearest_station
    /\ \E f \in 1..Len(patrol_stations) :
          patrol_stations[f].service_area_sq_km = 0
    /\ \E f \in 1..Len(patrol_stations) :
          patrol_stations[f].service_area_sq_km = 3

\* C7: after a full pipeline run with at least one eligible precinct, every
\* zone is assigned to a facility and the zipcode_count values of the
\* facilities sum to the number of zones.
C7_ZipcodeCountsSumToZones ==
    (pc \in {"equity", "done"} /\ patrol_stations # <<>>) =>
        /\ \A i \in 1..Len(zipcodes) :
              Cardinality(AssignedStations(zipcodes[i])) = 1
        /\ SumSeq(Column(patrol_stations, "zipcode_count")) = Len(zipcodes)

\* A run of main has ended: two precincts with three facilities each, two
\* zone rows with the same ZIP value counted for the same facility.
C7_Witness ==
    /\ pc = "done"
    /\ Len(constable_precincts) = 2
    /\ Len(patrol_stations) = 6
    /\ Len(zipcodes) = 2
    /\ zipcodes[1].ZIP = zipcodes[2].ZIP
    /\ \E f \in 1..Len(patrol_stations) : patrol_stations[f].zipcode_count = 2

----------------------------------------------------------------------------
(* Claims about the Gini coefficient *)

\* The zone distances that are not missing, in the order the zones are listed.
ZoneDistances == DropNaN(Column(zipcodes, "distance_km"))

\* The position of the i-th listed distance in the ascending arrangement
\* (equal distances in listing order).
AscendingRank(d, i) ==
    Cardinality({j \in 1..Len(d) : d[j] < d[i]})
    + Cardinality({j \in 1..i : d[j] = d[i]})

\* The sum over all ordered pairs of zones of |d[i] - d[j]|, which no
\* reordering of the zones changes.
PairwiseDifferences(d) ==
    SumSeq([i \in 1..Len(d) |->
        SumSeq([j \in 1..Len(d) |-> Abs(d[i] - d[j])])])

\* C8: gini_coefficient is the discrete Gini value of the non-missing zone
\* distances: numerator the sum of (2*r - n - 1)*d over the zones, r the rank
\* of the zone's distance in ascending order, denominator n times the sum of
\* the distances; the numerator is half the sum of |d[i] - d[j]| over all
\* pairs, so the order in which the zones are listed does not matter.
C8_GiniIsDiscreteFormula ==
    pc = "done" =>
        LET d == ZoneDistances
            n == Len(d)
        IN  /\ equity_metrics.gini_coefficient[1] =
                  SumSeq([i \in 1..n |->
                      (2 * AscendingRank(d, i) - n - 1) * d[i]])
            /\ equity_metrics.gini_coefficient[2] = n * SumSeq(d)
            /\ 2 * equity_metrics.gini_coefficient[1] = PairwiseDifferences(d)

\* The metrics of five zones listed in descending order of distance.
C8_Witness ==
    /\ pc = "done"
    /\ Len(ZoneDistances) = 5
    /\ \A i \in 1..4 : ZoneDistances[i] > ZoneDistances[i + 1]
    /\ equity_metrics.gini_coefficient[1] > 0

IsOneToFourAndTen(d) ==
    /\ Len(d) = 5
    /\ {d[i] : i \in 1..5} = {1, 2, 3, 4, 10}

\* C9 as stated: for the zone distances [1, 2, 3, 4, 10] the Gini coefficient
\* is 0.36 to two decimal places.
C9_GiniIsAbout036 ==
    (pc = "done" /\ IsOneToFourAndTen(ZoneDistances)) =>
        /\ 355 * equity_metrics.gini_coefficient[2]
              <= 1000 * equity_metrics.gini_coefficient[1]
        /\ 1000 * equity_metrics.gini_coefficient[1]
              < 365 * equity_metrics.gini_coefficient[2]

\* C9 as amended: for the zone distances [1, 2, 3, 4, 10], in any listing
\* order, the Gini coefficient is 40/100 = 0.4.
C9_GiniIs040 ==
    (pc = "done" /\ IsOneToFourAndTen(ZoneDistances)) =>
        /\ equity_metrics.gini_coefficient[2] # 0
        /\ 10 * equity_metrics.gini_coefficient[1]
              = 4 * equity_metrics.gini_coefficient[2]

\* The metrics of the zone distances 1, 2, 3, 4, 10.
C9_Witness ==
    /\ pc = "done"
    /\ ZoneDistances = <<1, 2, 3, 4, 10>>

AllSamePositive(d) ==
    /\ Len(d) >= 1
    /\ d[1] > 0
    /\ \A i \in 1..Len(d) : d[i] = d[1]

\* C10: when all zones have the same positive distance, gini_coefficient is 0.
C10_EqualDistancesGiniZero ==
    (pc = "done" /\ AllSamePositive(ZoneDistances)) =>
        /\ equity_metrics.gini_coefficient[1] = 0
        /\ equity_metrics.gini_coefficient[2] # 0

\* The metrics of five zones all at 3 km.
C10_Witness ==
    /\ pc = "done"
    /\ ZoneDistances = <<3, 3, 3, 3, 3>>

----------------------------------------------------------------------------
(* Claims about the degenerate cases of the equity metrics *)

\* The float that the fraction <<numerator, denominator>> stands for is a
\* number: a zero denominator makes the numpy division nan (0/0) or infinite.
Defined(q) == q[2] # 0

\* No zone distance at all, or every zone at distance 0.
DegenerateDistances(d) == Len(d) = 0 \/ SumSeq(d) = 0

\* C11: when there is no zone distance (n = 0) or the distances sum to 0,
\* calculate_equity_metrics does not divide by zero: gini_coefficient is the
\* sentinel 0.0, and the other metrics are produced as well.
C11_DegenerateGiniIsSentinel ==
    (pc = "done" /\ DegenerateDistances(ZoneDistances)) =>
        /\ Defined(equity_metrics.gini_coefficient)
        /\ equity_metrics.gini_coefficient[1] = 0
        /\ equity_metrics.threshold_distance_km = threshold_distance
        /\ Len(zipcodes) > 0 => Defined(equity_metrics.coverage_ratio)

----------------------------------------------------------------------------
(* Claims about the coverage ratio *)

\* The thresholds (km) a caller may ask the coverage for.
ThresholdChoices == {0, 4, threshold_distance, Infinity}

\* The area of the zones whose distance is at most threshold_km (inclusive).
AreaWithin(zones, threshold_km) ==
    SumSeq(Column(SelectSeq(zones,
                            LAMBDA z : ~IsNaN(z.distance_km)
                                       /\ z.distance_km <= threshold_km),
                  "area_sq_km"))

\* C12: whichever threshold_km the caller supplies, coverage_ratio is the area
\* of the zones with distance_km <= threshold_km (inclusive) over the total
\* zone area, and threshold_distance_km reports that threshold (10 only by
\* default).  calculate_equity_metrics takes no threshold: its one result is
\* the result for every threshold asked for.
C12_CoverageUsesCallersThreshold ==
    pc = "done" =>
        \A threshold_km \in ThresholdChoices :
            /\ equity_metrics.threshold_distance_km = threshold_km
            /\ equity_metrics.coverage_ratio =
                  <<AreaWithin(zipcodes, threshold_km),
                    SumSeq(Column(zipcodes, "area_sq_km"))>>

\* Every zone has a facility and a distance.
AllAssigned(zones) ==
    \A i \in 1..Len(zones) :
        zones[i].nearest_station # <<>> /\ ~IsNaN(zones[i].distance_km)

\* C13: asked for threshold 0, the coverage ratio is 0.0 whenever no zone has
\* distance exactly 0; asked for threshold infinity, it is 1.0 for every
\* assigned zone set.
C13_CoverageAtZeroAndInfinity ==
    (pc = "done" /\ Len(zipcodes) > 0 /\ AllAssigned(zipcodes)) =>
        /\ (\A i \in 1..Len(zipcodes) : zipcodes[i].distance_km # 0) =>
              /\ Defined(equity_metrics.coverage_ratio)
              /\ equity_metrics.coverage_ratio[1] = 0
        /\ /\ Defined(equity_metrics.coverage_ratio)
           /\ equity_metrics.coverage_ratio[1]
                 = equity_metrics.coverage_ratio[2]

----------------------------------------------------------------------------
(* Claims about repeated and tied assignment *)

\* C14: a second run of analyze_service_coverage on the zones the first run
\* annotated and on the same facilities leaves every zone's nearest_station
\* and distance_km as the first run set them.
C14_SecondRunSameAssignment ==
    [][(pc = "equity" /\ pc' = "analyzed twice") =>
          /\ Len(zipcodes') = Len(zipcodes)
          /\ \A i \in 1..Len(zipcodes) :
                /\ zipcodes'[i].nearest_station = zipcodes[i].nearest_station
                /\ zipcodes'[i].distance_km = zipcodes[i].distance_km]_vars

\* The function has run twice on two zones that are served by different
\* facilities, one of them at a distance.
C14_Witness ==
    /\ pc = "analyzed twice"
    /\ Len(zipcodes) = 2
    /\ zipcodes[1].nearest_station # zipcodes[2].nearest_station
    /\ zipcodes[1].distance_km > 0

\* The facilities at the minimum distance from a zone's centroid.
MinDistanceStations(zone) ==
    {s \in 1..Len(patrol_stations) :
        \A f \in 1..Len(patrol_stations) :
            MetresBetween(zone, patrol_stations[f])
                >= MetresBetween(zone, patrol_stations[s])}

\* C15: a zone with two or more facilities at the same minimum distance from
\* its centroid is assigned to the one of them that comes first in the
\* facility table.
C15_TieGoesToFirstFacility ==
    (pc = "equity" /\ patrol_stations # <<>>) =>
        \A i \in 1..Len(zipcodes) :
            Cardinality(MinDistanceStations(zipcodes[i])) >= 2 =>
                zipcodes[i].nearest_station =
                    patrol_stations[SetMin(MinDistanceStations(zipcodes[i]))]
                        .station_id

\* The same statement for the zone tables whose ZIP values are all distinct.
TieGoesToFirstWhenZipsDistinct == DistinctZips => C15_TieGoesToFirstFacility

----------------------------------------------------------------------------
(* Claims about precinct membership *)

\* The zones recorded with a facility of precinct number p.
ZonesServedByPrecinct(p) ==
    {i \in 1..Len(zipcodes) :
        \E a \in AssignedStations(zipcodes[i]) :
            patrol_stations[a].precinct = p}

\* The precinct rows whose polygon has the zone's centroid inside.
GeographicPrecincts(zone) ==
    {j \in 1..Len(constable_precincts) :
        StrictlyInside(constable_precincts[j].geometry, zone.geometry)}

\* C16: after assignment every zone's precinct is the precinct of the facility
\* it is recorded with, whichever precinct polygon the zone lies in, and the
\* per-precinct table of the equity metrics counts each zone under that
\* facility's precinct.
C16_PrecinctFollowsFacility ==
    /\ (pc \in {"equity", "done"} /\ patrol_stations # <<>>) =>
          \A i \in 1..Len(zipcodes) :
              /\ AssignedStations(zipcodes[i]) # {}
              /\ \A a \in AssignedStations(zipcodes[i]) :
                    zipcodes[i].precinct = patrol_stations[a].precinct
    /\ pc = "done" =>
          /\ \A p \in PctNums :
                ZonesServedByPrecinct(p) # {} =>
                    \E r \in 1..Len(equity_metrics.precinct_metrics) :
                        equity_metrics.precinct_metrics[r].precinct = p
          /\ \A r \in 1..Len(equity_metrics.precinct_metrics) :
                equity_metrics.precinct_metrics[r].zipcode_count =
                    Cardinality(ZonesServedByPrecinct(
                        equity_metrics.precinct_metrics[r].precinct))

\* A run has ended in which a zone lying inside one precinct's polygon has its
\* nearest facility in another precinct and is counted under that precinct.
C16_Witness ==
    /\ pc = "done"
    /\ DistinctZips
    /\ \E i \in 1..Len(zipcodes) :
          \E j \in GeographicPrecincts(zipcodes[i]) :
              /\ zipcodes[i].precinct # constable_precincts[j].PCT_NUM
              /\ AssignedStations(zipcodes[i])
                    \subseteq MinDistanceStations(zipcodes[i])
              /\ \E r \in 1..Len(equity_metrics.precinct_metrics) :
                    /\ equity_metrics.precinct_metrics[r].precinct
                          = zipcodes[i].precinct
                    /\ equity_metrics.precinct_metrics[r].zipcode_count >= 1

----------------------------------------------------------------------------
(* Claims about the facility table after assignment *)

\* The zones recorded with the facility station_id.
ZonesOf(station_id) ==
    {i \in 1..Len(zipcodes) : zipcodes[i].nearest_station = station_id}

\* C17: the facility table analyze_service_coverage returns has exactly the
\* facilities it was given, in the same order, none dropped and none
\* repeated, and a facility no zone is assigned to has service_area_sq_km 0,
\* avg_distance_km 0 and zipcode_count 0.
C17_UnservedFacilitiesZeroFilled ==
    pc = "equity" =>
        /\ Len(patrol_stations) = Len(optimal_stations)
        /\ \A i \in 1..Len(patrol_stations) :
              /\ patrol_stations[i].station_id = optimal_stations[i].station_id
              /\ patrol_stations[i].precinct = optimal_stations[i].precinct
              /\ patrol_stations[i].geometry = optimal_stations[i].geometry
              /\ ZonesOf(patrol_stations[i].station_id) = {} =>
                    /\ patrol_stations[i].service_area_sq_km = 0
                    /\ patrol_stations[i].avg_distance_km[1] = 0
                    /\ Defined(patrol_stations[i].avg_distance_km)
                    /\ patrol_stations[i].zipcode_count = 0

\* Of four facilities two serve a zone each and two serve none.
C17_Witness ==
    /\ pc = "equity"
    /\ Len(patrol_stations) = 4
    /\ Cardinality({i \in 1..Len(patrol_stations) :
                       ZonesOf(patrol_stations[i].station_id) = {}}) = 2
    /\ Cardinality({i \in 1..Len(patrol_stations) :
                       patrol_stations[i].zipcode_count = 1}) = 2

----------------------------------------------------------------------------
(* Claims about a skipped precinct *)

\* The precincts with fewer demand points than stations are asked for.
SkippedPrecincts == PrecinctNumbers \ EligiblePrecincts

\* C18: when a precinct has fewer demand points than num_stations_per_precinct
\* and another precinct has enough, the run does not abort: every other
\* precinct gets its stations, the skipped one gets none, the assignment
\* stage is reached, and every zone, also one lying in the skipped precinct,
\* is assigned to a facility of another precinct that is nearest to its
\* centroid.
C18_SkippedPrecinctDoesNotAbort ==
    (SkippedPrecincts # {} /\ EligiblePrecincts # {}) =>
        /\ pc # "error"
        /\ pc \in {"analyze", "equity"} =>
              /\ \A p \in EligiblePrecincts :
                    FacilityCount(p) = num_stations_per_precinct
              /\ \A p \in SkippedPrecincts : FacilityCount(p) = 0
        /\ pc = "equity" =>
              \A i \in 1..Len(zipcodes) :
                  /\ Cardinality(AssignedStations(zipcodes[i])) = 1
                  /\ \A a \in AssignedStations(zipcodes[i]) :
                        /\ a \in MinDistanceStations(zipcodes[i])
                        /\ patrol_stations[a].precinct \in EligiblePrecincts

\* The same statement for the zone tables whose ZIP values are all distinct.
SkipDoesNotAbortWhenZipsDistinct ==
    DistinctZips => C18_SkippedPrecinctDoesNotAbort

----------------------------------------------------------------------------
(* Claims about main *)

\* C19: a run of main without any valid precinct (an empty precinct table,
\* precincts of zero total area, or no precinct with enough points, hence no
\* facility) or without any zone never gets to the assignment results and the
\* metrics: it ends with an exception, and a run that produces them has at
\* least one facility and at least one zone.
C19_StructuralErrorIsFatal ==
    /\ (constable_precincts = <<>> \/ TotalArea(constable_precincts) = 0) =>
          pc \in {"generate", "sampling", "error"}
    /\ (pc \in {"analyze", "equity", "done"} /\ EligiblePrecincts = {}) =>
          pc = "analyze" /\ patrol_stations = <<>>
    /\ pc \in {"equity", "done"} =>
          patrol_stations # <<>> /\ zipcodes # <<>>

\* A run with facilities and without zones has ended with the exception.
C19_Witness ==
    /\ pc = "error"
    /\ patrol_stations # <<>>
    /\ zipcodes = <<>>

\* A run without any facility has ended with the exception.
NoFacilityRunHasFailed ==
    /\ pc = "error"
    /\ constable_precincts # <<>>
    /\ TotalArea(constable_precincts) # 0
    /\ patrol_stations = <<>>

\* The stage of main a position belongs to: 1 point generation, 2 facility
\* placement, 3 assignment, 4 equity metrics, 5 after the metrics.
StageOf(p) ==
    CASE p \in {"generate", "sampling"} -> 1
      [] p = "optimize" -> 2
      [] p = "analyze" -> 3
      [] p = "equity" -> 4
      [] OTHER -> 5

\* The points generate_patrol_points owes precinct number p: the quotas of
\* its rows.
OwedPoints(p) ==
    SumSeq([i \in 1..Len(constable_precincts) |->
               IF constable_precincts[i].PCT_NUM = p
               THEN Quota(constable_precincts, num_points, i) ELSE 0])

\* What has and has not happened at each stage: the stages before have run
\* to their end and handed over their whole output, the stages after have
\* not begun.
HandoverComplete ==
    /\ StageOf(pc) = 1 =>
          /\ patrol_points = <<>>
          /\ opt_idx = 1 /\ optimal_stations = <<>>
    /\ (StageOf(pc) >= 2 /\ pc # "error") =>
          /\ idx > Len(constable_precincts)
          /\ patrol_points = all_points
          /\ \A p \in PrecinctNumbers : DemandPointCount(p) = OwedPoints(p)
    /\ StageOf(pc) <= 2 => patrol_stations = <<>>
    /\ (StageOf(pc) >= 3 /\ pc # "error") =>
          /\ opt_idx > Len(Unique(Column(constable_precincts, "PCT_NUM")))
          /\ Column(patrol_stations, "station_id")
                = Column(optimal_stations, "station_id")
          /\ \A p \in EligiblePrecincts :
                FacilityCount(p) = num_stations_per_precinct
    /\ StageOf(pc) <= 3 => zipcodes = <<>>
    /\ (StageOf(pc) >= 4 /\ pc # "error") =>
          /\ zipcodes # <<>>
          /\ \A i \in 1..Len(zipcodes) : zipcodes[i].nearest_station # <<>>
          /\ SumSeq(Column(patrol_stations, "zipcode_count")) = Len(zipcodes)
    /\ pc # "done" => equity_metrics = None

\* C20: in every run of main the stages come in the order point generation,
\* facility placement, assignment, equity metrics, each step staying in its
\* stage or moving to the next one (or ending the run with an exception), and
\* a stage begins only when the stage before has finished and handed over its
\* whole output.
C20_StagesInOrder ==
    /\ []HandoverComplete
    /\ [][\/ pc' = "error"
          \/ StageOf(pc') = StageOf(pc)
          \/ StageOf(pc') = StageOf(pc) + 1]_vars

\* A run has gone through all four stages: points of two precincts, three
\* facilities for each, two zones, the metrics.
C20_Witness ==
    /\ pc = "done"
    /\ Len(patrol_points) > 10
    /\ Len(optimal_stations) = 6
    /\ Len(zipcodes) = 2
    /\ equity_metrics.threshold_distance_km = threshold_distance

----------------------------------------------------------------------------
(* Claims about repeated runs *)

\* C21: a run on the same precinct table and point budget as an earlier run
\* produces the demand points the earlier run produced (main and
\* generate_patrol_points take no seed, so the same input is all that two
\* runs can share); the state an earlier run left in the random generator
\* does not show.
C21_RunsProduceSamePoints ==
    (/\ pc = "generate"
     /\ idx > Len(constable_precincts)
     /\ patrol_points # <<>>) =>
        all_points = patrol_points

----------------------------------------------------------------------------
(* Claims about what the assignment stage changes *)

\* The facility table after has the rows of the table before, each with its
\* station_id, precinct, geometry and cluster_size, and the three metrics.
FacilitiesKept(before, after) ==
    /\ Len(after) = Len(before)
    /\ \A i \in 1..Len(before) :
          /\ after[i].station_id = before[i].station_id
          /\ after[i].precinct = before[i].precinct
          /\ after[i].geometry = before[i].geometry
          /\ after[i].cluster_size = before[i].cluster_size
          /\ DOMAIN after[i] =
                {"station_id", "precinct", "geometry", "cluster_size",
                 "service_area_sq_km", "avg_distance_km", "zipcode_count"}

\* The zone table after has the rows of the table before, each with its ZIP,
\* geometry and area_sq_km, and the three assignment fields.
ZonesKept(before, after) ==
    /\ Len(after) = Len(before)
    /\ \A i \in 1..Len(before) :
          /\ after[i].ZIP = before[i].ZIP
          /\ after[i].geometry = before[i].geometry
          /\ after[i].area_sq_km = before[i].area_sq_km
          /\ DOMAIN after[i] =
                {"ZIP", "geometry", "area_sq_km",
                 "nearest_station", "distance_km", "precinct"}

\* C22: analyze_service_coverage leaves every facility's station_id,
\* precinct, geometry and cluster_size and every zone's ZIP, geometry and
\* area_sq_km as they were; it only adds the assignment fields of the zones
\* and the metric fields of the facilities.
C22_AssignmentOnlyAppends ==
    [][/\ (pc = "analyze" /\ pc' = "equity") =>
             /\ FacilitiesKept(patrol_stations, patrol_stations')
             /\ \E zones \in ZoneTables : ZonesKept(zones, zipcodes')
       /\ (pc = "equity" /\ pc' = "analyzed twice") =>
             /\ FacilitiesKept(optimal_stations, patrol_stations')
             /\ ZonesKept(zipcodes, zipcodes')]_vars

\* The function has run on two zones and four facilities, one of which
\* serves both zones.
C22_Witness ==
    /\ pc = "analyzed twice"
    /\ Len(zipcodes) = 2
    /\ Len(patrol_stations) = 4
    /\ \E f \in 1..Len(patrol_stations) : patrol_stations[f].zipcode_count = 2

----------------------------------------------------------------------------
(* Claims about the identifiers and the cluster sizes *)

\* The station_id values of the facilities of precinct number p.
StationIdsOf(p) ==
    {patrol_stations[f].station_id :
        f \in {g \in 1..Len(patrol_stations) : patrol_stations[g].precinct = p}}

\* C23: the facilities of a precinct carry the indices
\* 1..num_stations_per_precinct in their station_id, next to the precinct
\* number, and no two facilities of the returned table share a station_id.
C23_StationIdsUnique ==
    pc = "analyze" =>
        /\ \A p \in PrecinctNumbers :
              FacilityCount(p) > 0 =>
                  StationIdsOf(p) =
                      {<<"S", p, i>> : i \in 1..num_stations_per_precinct}
        /\ \A f, g \in 1..Len(patrol_stations) :
              patrol_stations[f].station_id = patrol_stations[g].station_id
                  => f = g

\* Two precincts have each been given three facilities.
C23_Witness ==
    /\ pc = "analyze"
    /\ num_stations_per_precinct = 3
    /\ Cardinality(PrecinctNumbers) = 2
    /\ \A p \in PrecinctNumbers : FacilityCount(p) = 3

\* C24: no two distinct demand points with the same precinct number share a
\* patrol_id, whatever precinct table is passed in, one with several rows
\* of the same precinct number included.
C24_PatrolIdsUniqueInPrecinct ==
    \A i, j \in 1..Len(all_points) :
        (/\ all_points[i].precinct = all_points[j].precinct
         /\ all_points[i].patrol_id = all_points[j].patrol_id) => i = j

\* The precinct numbers of the rows of the table are pairwise different.
OneRowPerPrecinct ==
    \A i, j \in 1..Len(constable_precincts) :
        constable_precincts[i].PCT_NUM = constable_precincts[j].PCT_NUM
            => i = j

\* When every precinct number names one row, the patrol_id values are
\* unique within a precinct.
PatrolIdsUniqueWhenOneRowPerPrecinct ==
    OneRowPerPrecinct => C24_PatrolIdsUniqueInPrecinct

\* The cluster_size values of the facilities of precinct number p.
ClusterSizesOf(p) ==
    Column(SelectSeq(patrol_stations, LAMBDA f : f.precinct = p),
           "cluster_size")

\* C25: for every eligible precinct the cluster_size values of its
\* facilities are counts of its own demand points and sum to the number of
\* demand points of the precinct.
C25_ClusterSizesSumToPoints ==
    pc = "analyze" =>
        \A p \in EligiblePrecincts :
            /\ SumSeq(ClusterSizesOf(p)) = DemandPointCount(p)
            /\ \A i \in 1..Len(ClusterSizesOf(p)) :
                  ClusterSizesOf(p)[i] \in 0..DemandPointCount(p)

\* Two precincts with different numbers of demand points have each been
\* clustered into three facilities.
C25_Witness ==
    /\ pc = "analyze"
    /\ num_stations_per_precinct = 3
    /\ Cardinality(EligiblePrecincts) = 2
    /\ \E p, q \in EligiblePrecincts :
          DemandPointCount(p) < DemandPointCount(q)
    /\ \A p \in EligiblePrecincts : Len(ClusterSizesOf(p)) = 3

----------------------------------------------------------------------------
(* Claims about the per-precinct table of calculate_equity_metrics *)

\* The rows of the zone table that have an assigned precinct.
AssignedZones == {i \in 1..Len(zipcodes) : ~IsNaN(zipcodes[i].precinct)}

\* The rows of the zone table assigned to precinct number p.
ZonesAssignedTo(p) == {i \in AssignedZones : zipcodes[i].precinct = p}

\* C26: the per-precinct table has exactly one row per distinct assigned
\* precinct of the zones; a row's zipcode_count is the number of zones
\* assigned to its precinct and its minimum, mean and maximum distance are
\* in that order; the counts sum to the number of assigned zones; a precinct
\* that was assigned no zone has no row.
C26_OneRowPerAssignedPrecinct ==
    pc = "done" =>
        LET rows == equity_metrics.precinct_metrics
        IN  /\ Len(rows) =
                  Cardinality({zipcodes[i].precinct : i \in AssignedZones})
            /\ {rows[r].precinct : r \in 1..Len(rows)} =
                  {zipcodes[i].precinct : i \in AssignedZones}
            /\ \A r \in 1..Len(rows) :
                  /\ rows[r].zipcode_count =
                        Cardinality(ZonesAssignedTo(rows[r].precinct))
                  /\ rows[r].min_distance_km * rows[r].avg_distance_km[2]
                        <= rows[r].avg_distance_km[1]
                  /\ rows[r].avg_distance_km[1]
                        <= rows[r].max_distance_km * rows[r].avg_distance_km[2]
                  /\ rows[r].avg_distance_km[2] > 0
            /\ SumSeq(Column(rows, "zipcode_count")) =
                  Cardinality(AssignedZones)
            /\ \A p \in PrecinctNumbers :
                  ZonesAssignedTo(p) = {} =>
                      \A r \in 1..Len(rows) : rows[r].precinct # p

\* One precinct serves two zones at different distances, and another
\* precinct, which has facilities, serves none.
C26_Witness ==
    /\ pc = "done"
    /\ \E r \in 1..Len(equity_metrics.precinct_metrics) :
          /\ equity_metrics.precinct_metrics[r].zipcode_count = 2
          /\ equity_metrics.precinct_metrics[r].min_distance_km
                < equity_metrics.precinct_metrics[r].max_distance_km
    /\ \E p \in PrecinctNumbers :
          /\ FacilityCount(p) > 0
          /\ ZonesAssignedTo(p) = {}

----------------------------------------------------------------------------
(* Claims about the skip branch of optimize_patrol_stations *)

\* The row of the precinct table that carries precinct number p.
RowOf(p) ==
    CHOOSE i \in 1..Len(constable_precincts) :
        constable_precincts[i].PCT_NUM = p

\* C27: in a run whose precinct numbers each name one row, every precinct
\* has at least 5 demand points, so with num_stations_per_precinct <= 5 no
\* precinct is left without facilities; a precinct is skipped only when
\* num_stations_per_precinct exceeds its quota of points.
C27_NoSkipUpToFiveStations ==
    (pc = "analyze" /\ OneRowPerPrecinct) =>
        /\ \A p \in PrecinctNumbers : DemandPointCount(p) >= 5
        /\ num_stations_per_precinct <= 5 =>
              \A p \in PrecinctNumbers :
                  FacilityCount(p) = num_stations_per_precinct
        /\ \A p \in PrecinctNumbers :
              FacilityCount(p) = 0 =>
                  num_stations_per_precinct >
                      Quota(constable_precincts, num_points, RowOf(p))

\* Two precincts with different numbers of demand points have both been
\* clustered into no more than five facilities each.
C27_Witness ==
    /\ pc = "analyze"
    /\ OneRowPerPrecinct
    /\ num_stations_per_precinct <= 5
    /\ \E p, q \in PrecinctNumbers :
          /\ DemandPointCount(p) = 5
          /\ DemandPointCount(q) > 5
          /\ FacilityCount(p) = num_stations_per_precinct
          /\ FacilityCount(q) = num_stations_per_precinct

----------------------------------------------------------------------------
(* Claims about zone rows that share a ZIP value *)

\* The last row of the zone table with the ZIP value of row i.
LastRowWithZipOf(i) ==
    SetMax({j \in 1..Len(zipcodes) : zipcodes[j].ZIP = zipcodes[i].ZIP})

\* The first of the facilities nearest to the centroid of a zone row.
FirstNearestStation(zone) ==
    patrol_stations[SetMin(MinDistanceStations(zone))]

\* C28: the assignment is recorded per ZIP value: every zone row carries
\* the nearest_station and distance_km computed for the last row with its
\* ZIP value, so rows sharing a ZIP value carry the same pair even when
\* their centroids differ; when all ZIP values are distinct every row's
\* facility is one nearest to its own centroid.
C28_AssignmentKeyedByZip ==
    (pc = "equity" /\ patrol_stations # <<>>) =>
        /\ \A i \in 1..Len(zipcodes) :
              LET last == zipcodes[LastRowWithZipOf(i)]
              IN  /\ zipcodes[i].nearest_station =
                        FirstNearestStation(last).station_id
                  /\ 1000 * zipcodes[i].distance_km =
                        MetresBetween(last, FirstNearestStation(last))
        /\ \A i, j \in 1..Len(zipcodes) :
              zipcodes[i].ZIP = zipcodes[j].ZIP =>
                  /\ zipcodes[i].nearest_station = zipcodes[j].nearest_station
                  /\ zipcodes[i].distance_km = zipcodes[j].distance_km
        /\ DistinctZips =>
              \A i \in 1..Len(zipcodes) :
                  AssignedStations(zipcodes[i])
                      \subseteq MinDistanceStations(zipcodes[i])

\* Two rows share a ZIP value and have different centroids, and the first
\* of them carries a facility that is not nearest to its own centroid.
C28_Witness ==
    /\ pc = "equity"
    /\ patrol_stations # <<>>
    /\ \E i, j \in 1..Len(zipcodes) :
          /\ i < j
          /\ zipcodes[i].ZIP = zipcodes[j].ZIP
          /\ zipcodes[i].geometry # zipcodes[j].geometry
          /\ zipcodes[i].nearest_station = zipcodes[j].nearest_station
          /\ AssignedStations(zipcodes[i]) # {}
          /\ AssignedStations(zipcodes[i])
                \cap MinDistanceStations(zipcodes[i]) = {}

----------------------------------------------------------------------------
(* Claims about the ranges of the equity metrics *)

\* C29: for zone distances that are not negative and have a positive sum,
\* gini_coefficient is in [0, (n-1)/n]; for zone areas that are not
\* negative and have a positive total, coverage_ratio is in [0, 1], it is
\* at least the share of area within any smaller threshold and at most the
\* share within any larger one.
C29_MetricsInRange ==
    pc = "done" =>
        /\ SumSeq(ZoneDistances) > 0 =>
              LET gini == equity_metrics.gini_coefficient
                  n == Len(ZoneDistances)
              IN  /\ gini[2] > 0
                  /\ 0 <= gini[1]
                  /\ n * gini[1] <= (n - 1) * gini[2]
                  /\ gini[1] < gini[2]
        /\ SumSeq(Column(zipcodes, "area_sq_km")) > 0 =>
              LET coverage == equity_metrics.coverage_ratio
              IN  /\ coverage[2] > 0
                  /\ 0 <= coverage[1]
                  /\ coverage[1] <= coverage[2]
                  /\ \A threshold_km \in ThresholdChoices :
                        /\ threshold_km <= equity_metrics.threshold_distance_km
                              => AreaWithin(zipcodes, threshold_km)
                                    <= coverage[1]
                        /\ threshold_km >= equity_metrics.threshold_distance_km
                              => coverage[1]
                                    <= AreaWithin(zipcodes, threshold_km)

\* Five zones, some within 4 km, one at exactly 10 km and one beyond, so
\* that the coverage differs between the thresholds; the Gini coefficient
\* is positive.
C29_Witness ==
    /\ pc = "done"
    /\ Len(ZoneDistances) = 5
    /\ {4, 10, 11} \subseteq {ZoneDistances[i] : i \in 1..5}
    /\ equity_metrics.gini_coefficient[1] > 0
    /\ AreaWithin(zipcodes, 4) < equity_metrics.coverage_ratio[1]
    /\ equity_metrics.coverage_ratio[1] < equity_metrics.coverage_ratio[2]

----------------------------------------------------------------------------
(* Claims about a facility table without rows *)

\* C30: after analyze_service_coverage on a facility table without rows no
\* zone has a facility: every nearest_station is None and every distance_km
\* is infinite; in every run a zone with a finite distance_km has a facility
\* of the table as its nearest_station.
C30_NoFacilityLeavesZonesUnassigned ==
    /\ (pc = "equity" /\ patrol_stations = <<>>) =>
          \A i \in 1..Len(zipcodes) :
              /\ zipcodes[i].nearest_station = <<>>
              /\ zipcodes[i].distance_km = Infinity
    /\ \A i \in 1..Len(zipcodes) :
          zipcodes[i].distance_km # Infinity =>
              /\ zipcodes[i].nearest_station # <<>>
              /\ AssignedStations(zipcodes[i]) # {}

\* The function has returned two zones of different ZIP values for a
\* facility table without rows.
C30_Witness ==
    /\ pc = "equity"
    /\ patrol_stations = <<>>
    /\ Len(zipcodes) = 2
    /\ zipcodes[1].ZIP # zipcodes[2].ZIP
    /\ \A i \in 1..2 : zipcodes[i].distance_km = Infinity

====
